---- MODULE Spec2Model ----
(***************************************************************************)
(* Talenthub (eddylms): enrollment progress aggregation, rule based        *)
(* auto-enrollment, quiz grading and impersonation, modelled as a state    *)
(* machine over the database tables and the browser session the views and  *)
(* services read and write.                                                *)
(***************************************************************************)
EXTENDS Integers, Sequences, FiniteSets, TLC

\* ------------------------------------------------------------------ bounds
MaxNow == 2            \* the clock runs over ticks 0..MaxNow
TicksPerDay == 2       \* timestamps are finer than dates
MaxMaterials == 2      \* CourseMaterial primary keys 1..MaxMaterials
MaxEnrollments == 3    \* Enrollment primary keys 1..MaxEnrollments
MaxAttempts == 1       \* QuizAttempt primary keys 1..MaxAttempts
MaxTotal == 4          \* materials of the course the aggregator is run on
MaxQuestions == 1      \* Question primary keys 1..MaxQuestions in the quiz builder
MaxChoiceRows == 6     \* Choice primary keys 1..MaxChoiceRows in the quiz builder

\* --------------------------------------------------------------- encodings
NULL == -1             \* SQL NULL / Python None in an integer column
NoRef == "NULL"        \* SQL NULL in a character column

ASSIGNED == "ASSIGNED"
IN_PROGRESS == "IN_PROGRESS"
COMPLETED == "COMPLETED"
OVERDUE == "OVERDUE"

ROLE_ADMIN == "ADMIN"
ROLE_MANAGER == "MANAGER"
ROLE_LEARNER == "LEARNER"
Roles == {ROLE_ADMIN, ROLE_MANAGER, ROLE_LEARNER}

MULTIPLE == "MULTIPLE"
TRUE_FALSE == "TRUE_FALSE"
SHORT_TEXT == "SHORT_TEXT"

UserIds == 1..2
CourseIds == 1..2
DeptIds == 1..2

VARIABLES
    now,          \* timezone.now(), in ticks
    users,        \* User table: the ids that exist
    superusers,   \* users with is_superuser
    profile,      \* Profile table: user -> [has, role, department]
    courses,      \* Course table: the ids that exist
    rules,        \* CourseAssignmentRule table, a sequence of rows
    materials,    \* CourseMaterial table: pk -> course id, NULL while the pk has no row
    mprogress,    \* MaterialProgress table: rows [user, material, is_completed]
    enrollments,  \* Enrollment table: a sequence of rows, the index is the pk
    quizzes,      \* Quiz table
    questions,    \* Question table
    choices,      \* Choice table
    attempts,     \* QuizAttempt table
    answers,      \* QuizAnswer table
    resp,         \* what the last operation was and what it reported
    session,      \* the browser session: logged-in user and impersonation keys
    pc,           \* concurrent post_save receivers: where each one stands
    loc           \* concurrent post_save receivers: the values each one holds

vars == <<now, users, superusers, profile, courses, rules, materials, mprogress,
          enrollments, quizzes, questions, choices, attempts, answers, resp,
          session, pc, loc>>

\* ------------------------------------------------------------------ helpers
Date(t) == t \div TicksPerDay

\* PyRound truncating instead of rounding
PyRound_Floor(n, d) == n \div d

\* Python's round() of the quotient n / d to an integer: ties go to the even one.
PyRound(n, d) ==
    LET q == n \div d
        r == n % d
    IN  IF 2 * r < d THEN q
        ELSE IF 2 * r > d THEN q + 1
        ELSE IF q % 2 = 0 THEN q ELSE q + 1

Resp(op, u, c) ==
    [op |-> op, user |-> u, course |-> c, day |-> NULL,
     repeat |-> FALSE, created |-> 0, skipped |-> 0, touched |-> {},
     due |-> NULL, target |-> NULL, refused |-> FALSE, kind |-> NoRef]

\* request.session of a browser nobody is logged in with
NoSession == [user |-> NULL, impersonator_id |-> NULL, is_impersonating |-> FALSE]

\* ------------------------------------------------------- Enrollment table
NewEnrollment(u, c, due, required, auto, progress) ==
    [user |-> u, course |-> c, progress |-> progress, completed_at |-> NULL,
     status |-> ASSIGNED, due_date |-> due, required |-> required,
     auto_enrolled |-> auto]

EnrollmentPks(rows, u, c) ==
    {i \in DOMAIN rows : rows[i].user = u /\ rows[i].course = c}

\* UniqueTogether without the constraint: every insert is accepted
UniqueTogether_Absent(rows, u, c) == TRUE

\* unique_together = ("user", "course"): the insert of a second row is refused
UniqueTogether(rows, u, c) == EnrollmentPks(rows, u, c) = {}

\* Enrollment.objects.create: the rows after the insert, unchanged on IntegrityError
InsertEnrollment(rows, row) ==
    IF UniqueTogether(rows, row.user, row.course) THEN Append(rows, row) ELSE rows

\* Enrollment.objects.get(user, course), as a pk
Pk(rows, u, c) == CHOOSE i \in EnrollmentPks(rows, u, c) : TRUE

\* GetOrCreate writing the defaults over the row it found
GetOrCreate_Overwrites(rows, row) ==
    IF EnrollmentPks(rows, row.user, row.course) # {}
    THEN [rows EXCEPT ![Pk(rows, row.user, row.course)] = row]
    ELSE InsertEnrollment(rows, row)

\* Enrollment.objects.get_or_create(user, course, defaults): the rows afterwards
GetOrCreate(rows, row) ==
    IF EnrollmentPks(rows, row.user, row.course) # {} THEN rows
    ELSE InsertEnrollment(rows, row)

\* ------------------------------------------------------ progress aggregator
MaterialsOf(mats, c) == {m \in DOMAIN mats : mats[m] = c}

CountDone(mp, mats, u, c) ==
    Cardinality({p \in mp : p.user = u /\ p.material \in MaterialsOf(mats, c)
                            /\ p.is_completed})

Percent(mp, mats, u, c) ==
    LET total == Cardinality(MaterialsOf(mats, c))
    IN  IF total = 0 THEN 0 ELSE PyRound(100 * CountDone(mp, mats, u, c), total)

\* DeriveStatus with the due date looked at last instead of first
DeriveStatus_PercentFirst(due, percent, today) ==
    IF percent = 0 THEN ASSIGNED
    ELSE IF percent >= 100 THEN COMPLETED
    ELSE IF due # NULL /\ today > due THEN OVERDUE
    ELSE IN_PROGRESS

\* the status recompute_enrollment_progress_for derives, due date first
DeriveStatus(due, percent, today) ==
    IF due # NULL /\ percent < 100 /\ today > due THEN OVERDUE
    ELSE IF percent = 0 THEN ASSIGNED
    ELSE IF percent < 100 THEN IN_PROGRESS
    ELSE COMPLETED

\* StampOnce without its guard: the timestamp is overwritten on every call
StampOnce_Always(old, t) == t

\* "if not completed_at: completed_at = timezone.now()"
StampOnce(old, t) == IF old = NULL THEN t ELSE old

\* Recomputed keeping the highest progress seen instead of the recomputed one
Recomputed_NeverLower(enr, percent, t) ==
    LET top == IF enr.progress > percent THEN enr.progress ELSE percent
        st == DeriveStatus(enr.due_date, top, Date(t))
    IN  [enr EXCEPT !.status = st,
                    !.completed_at = IF st = COMPLETED THEN StampOnce(@, t) ELSE @,
                    !.progress = top]

\* the row recompute_enrollment_progress_for saves
Recomputed(enr, percent, t) ==
    LET st == DeriveStatus(enr.due_date, percent, Date(t))
    IN  [enr EXCEPT !.status = st,
                    !.completed_at = IF st = COMPLETED THEN StampOnce(@, t) ELSE @,
                    !.progress = percent]

RecomputeRows(rows, mp, mats, u, c, t) ==
    LET got == GetOrCreate(rows, NewEnrollment(u, c, NULL, TRUE, FALSE, 0))
        pk  == Pk(got, u, c)
    IN  [got EXCEPT ![pk] = Recomputed(@, Percent(mp, mats, u, c), t)]

\* the table has room for one more row, or the pair already has its row
Room(rows, u, c) == Len(rows) < MaxEnrollments \/ EnrollmentPks(rows, u, c) # {}

\* recompute_enrollment_progress_for(user, course), called as a service
Recompute(u, c) ==
    /\ u \in users /\ c \in courses
    /\ Room(enrollments, u, c)
    /\ enrollments' = RecomputeRows(enrollments, mprogress, materials, u, c, now)
    /\ resp' = [Resp("recompute", u, c) EXCEPT
                  !.day = Date(now),
                  !.repeat = /\ resp.op = "recompute" /\ resp.user = u
                             /\ resp.course = c /\ resp.day = Date(now)]
    /\ UNCHANGED <<session, pc, loc, now, users, superusers, profile, courses, rules, materials,
                   mprogress, quizzes, questions, choices, attempts, answers>>

\* Enrollment.mark_completed
MarkCompleted(enr, t) ==
    [enr EXCEPT !.status = COMPLETED, !.completed_at = StampOnce(@, t),
                !.progress = 100]

\* ------------------------------------------------------------------- clock
Tick ==
    /\ now < MaxNow
    /\ now' = now + 1
    /\ UNCHANGED <<session, pc, loc, users, superusers, profile, courses, rules, materials, mprogress,
                   enrollments, quizzes, questions, choices, attempts, answers, resp>>

\* ---------------------------------------------------------------- materials
\* AddMaterial with a recompute of the course's enrollments on the new total
AddMaterial_Recomputes(c) ==
    /\ c \in courses
    /\ \E m \in DOMAIN materials :
         /\ materials[m] = NULL
         /\ \A k \in DOMAIN materials : k < m => materials[k] # NULL
         /\ materials' = [materials EXCEPT ![m] = c]
    /\ enrollments' =
         [i \in DOMAIN enrollments |->
            IF enrollments[i].course = c
            THEN Recomputed(enrollments[i],
                            Percent(mprogress, materials', enrollments[i].user, c), now)
            ELSE enrollments[i]]
    /\ resp' = Resp("course_materials", NULL, c)
    /\ UNCHANGED <<session, pc, loc, now, users, superusers, profile, courses, rules, mprogress,
                   quizzes, questions, choices, attempts, answers>>

\* course_materials POST: a new CourseMaterial row; no Enrollment is touched.
\* A deleted row's pk is free again: the cascade left nothing referring to it.
AddMaterial(c) ==
    /\ c \in courses
    /\ \E m \in DOMAIN materials :
         /\ materials[m] = NULL
         /\ \A k \in DOMAIN materials : k < m => materials[k] # NULL
         /\ materials' = [materials EXCEPT ![m] = c]
    /\ resp' = Resp("course_materials", NULL, c)
    /\ UNCHANGED <<session, pc, loc, now, users, superusers, profile, courses, rules, mprogress,
                   enrollments, quizzes, questions, choices, attempts, answers>>

\* material_delete POST: the row and, by CASCADE, its MaterialProgress rows
DeleteMaterial(m) ==
    /\ m \in DOMAIN materials /\ materials[m] # NULL
    /\ materials' = [materials EXCEPT ![m] = NULL]
    /\ mprogress' = {p \in mprogress : p.material # m}
    /\ resp' = Resp("material_delete", NULL, materials[m])
    /\ UNCHANGED <<session, pc, loc, now, users, superusers, profile, courses, rules, enrollments,
                   quizzes, questions, choices, attempts, answers>>

\* MaterialProgress.save() of the (user, material) row, then the post_save
\* receiver update_enrollment_progress, which recomputes the owning course.
SaveMaterialProgress(u, m, done) ==
    /\ u \in users /\ m \in DOMAIN materials /\ materials[m] # NULL
    /\ Room(enrollments, u, materials[m])
    /\ LET mp == {p \in mprogress : ~(p.user = u /\ p.material = m)}
                   \cup {[user |-> u, material |-> m, is_completed |-> done]}
       IN  /\ mprogress' = mp
           /\ enrollments' = RecomputeRows(enrollments, mp, materials, u,
                                           materials[m], now)
    /\ resp' = [Resp("material_progress", u, materials[m]) EXCEPT !.day = Date(now)]
    /\ UNCHANGED <<session, pc, loc, now, users, superusers, profile, courses, rules, materials,
                   quizzes, questions, choices, attempts, answers>>

\* ------------------------------------------------------------- assignments
\* AssignCourseRows writing the supplied due date over a stored one
AssignCourseRows_Overwrite(rows, u, c, due, required, auto) ==
    IF EnrollmentPks(rows, u, c) = {}
    THEN GetOrCreate(rows, NewEnrollment(u, c, due, required, auto, 0))
    ELSE LET pk == Pk(rows, u, c)
         IN  IF due # NULL THEN [rows EXCEPT ![pk].due_date = due] ELSE rows

\* assign_course(user, course, due_date, required, auto): the rows afterwards
AssignCourseRows(rows, u, c, due, required, auto) ==
    IF EnrollmentPks(rows, u, c) = {}
    THEN GetOrCreate(rows, NewEnrollment(u, c, due, required, auto, 0))
    ELSE LET pk == Pk(rows, u, c)
         IN  IF due # NULL /\ rows[pk].due_date = NULL
             THEN [rows EXCEPT ![pk].due_date = due]
             ELSE rows

AssignCourse(u, c, due, required, auto) ==
    /\ u \in users /\ c \in courses
    /\ Room(enrollments, u, c)
    /\ enrollments' = AssignCourseRows(enrollments, u, c, due, required, auto)
    /\ resp' = [Resp("assign_course", u, c) EXCEPT
                  !.due = due,
                  !.created = IF EnrollmentPks(enrollments, u, c) = {} THEN 1 ELSE 0]
    /\ UNCHANGED <<session, pc, loc, now, users, superusers, profile, courses, rules, materials,
                   mprogress, quizzes, questions, choices, attempts, answers>>

\* the profile fields assign_by_rules reads through getattr(..., None)
DeptOf(u) == IF profile[u].has THEN profile[u].department ELSE NULL
RoleOf(u) == IF profile[u].has THEN profile[u].role ELSE NoRef

\* RuleSelected without the filter on active
RuleSelected_AnyActive(rule, dept_id, role) ==
    /\ IF dept_id # NULL
       THEN rule.department = dept_id \/ rule.department = NULL
       ELSE rule.department = NULL
    /\ IF role # NoRef
       THEN rule.role = role \/ rule.role = NoRef
       ELSE rule.role = NoRef

\* the queryset of assign_by_rules: active rules, department equal or null,
\* role equal or null
RuleSelected(rule, dept_id, role) ==
    /\ rule.active
    /\ IF dept_id # NULL
       THEN rule.department = dept_id \/ rule.department = NULL
       ELSE rule.department = NULL
    /\ IF role # NoRef
       THEN rule.role = role \/ rule.role = NoRef
       ELSE rule.role = NoRef

\* "today + timedelta(days=rule.due_in_days) if rule.due_in_days else None"
DueFor(rule, today) ==
    IF rule.due_in_days # NULL /\ rule.due_in_days # 0
    THEN today + rule.due_in_days ELSE NULL

\* the loop of assign_by_rules over the selected rules, in the order given
RECURSIVE AssignLoop(_, _, _, _)
AssignLoop(rows, u, order, today) ==
    IF order = <<>> THEN rows
    ELSE LET rule == rules[Head(order)]
         IN  AssignLoop(AssignCourseRows(rows, u, rule.course,
                                         DueFor(rule, today), rule.required, TRUE),
                        u, Tail(order), today)

\* the orders in which the database may return a set of rows
Orders(S) ==
    {o \in [1..Cardinality(S) -> S] : \A i, j \in DOMAIN o : i # j => o[i] # o[j]}

SelectedRules(u) ==
    {r \in DOMAIN rules : RuleSelected(rules[r], DeptOf(u), RoleOf(u))}

\* assign_by_rules(user)
AssignByRules(u) ==
    /\ u \in users
    /\ \E order \in Orders(SelectedRules(u)) :
         enrollments' = AssignLoop(enrollments, u, order, Date(now))
    /\ Len(enrollments') <= MaxEnrollments
    /\ resp' = [Resp("assign_by_rules", u, NULL) EXCEPT
                  !.touched = {rules[r].course : r \in SelectedRules(u)},
                  !.created = Len(enrollments') - Len(enrollments)]
    /\ UNCHANGED <<session, pc, loc, now, users, superusers, profile, courses, rules, materials,
                   mprogress, quizzes, questions, choices, attempts, answers>>

\* HookProfile with the posted department and role already on the profile
HookProfile_Posted(dep, role) == [has |-> TRUE, role |-> role, department |-> dep]

\* the profile create_profile_and_assign stores before it calls assign_by_rules:
\* Profile.objects.get_or_create(user=instance), the model's defaults
HookProfile(dep, role) == [has |-> TRUE, role |-> ROLE_LEARNER, department |-> NULL]

\* user_create POST for a username that is free.  create_user fires the
\* user-created hook, which stores the profile and runs assign_by_rules on it;
\* the Profile.objects.create of the view that follows meets the one-to-one
\* row of the hook, raises IntegrityError and stores nothing
UserCreate(u, dep, role) ==
    /\ u \notin users
    /\ users' = users \cup {u}
    /\ profile' = [profile EXCEPT ![u] = HookProfile(dep, role)]
    /\ LET selected == {r \in DOMAIN rules :
                          RuleSelected(rules[r], profile'[u].department, profile'[u].role)}
       IN  \E order \in Orders(selected) :
             enrollments' = AssignLoop(enrollments, u, order, Date(now))
    /\ Len(enrollments') <= MaxEnrollments
    /\ resp' = [Resp("user_create", u, NULL) EXCEPT !.target = dep, !.kind = role]
    /\ UNCHANGED <<session, pc, loc, now, superusers, courses, rules, materials,
                   mprogress, quizzes, questions, choices, attempts, answers>>

\* ------------------------------------------------------------ role helpers
\* _role_of: the profile's role, LEARNER when there is no profile
ViewRoleOf(u) == IF profile[u].has THEN profile[u].role ELSE ROLE_LEARNER

IsAdmin(u) == u \in superusers \/ ViewRoleOf(u) = ROLE_ADMIN

IsManager(u) == ViewRoleOf(u) = ROLE_MANAGER \/ IsAdmin(u)

\* ------------------------------------------------------- enrollment views
\* the row enrollment_create and course_bulk_enroll leave behind: the default
\* status, the posted progress, completed_at stamped when progress >= 100
CreatedRow(u, c, progress, t) ==
    [NewEnrollment(u, c, NULL, TRUE, FALSE, progress) EXCEPT
       !.completed_at = IF progress >= 100 THEN t ELSE NULL]

\* enrollment_create POST: Enrollment.objects.create, an IntegrityError (and no
\* write) when the pair has its row already
EnrollmentCreate(u, c, progress) ==
    /\ u \in users /\ c \in courses
    /\ Len(enrollments) < MaxEnrollments
    /\ enrollments' = InsertEnrollment(enrollments, CreatedRow(u, c, progress, now))
    /\ resp' = [Resp("enrollment_create", u, c) EXCEPT
                  !.created = Len(enrollments') - Len(enrollments)]
    /\ UNCHANGED <<session, pc, loc, now, users, superusers, profile, courses, rules, materials,
                   mprogress, quizzes, questions, choices, attempts, answers>>

\* initial_progress of course_bulk_enroll, clamped to 0..100
Clamp(p) == IF p < 0 THEN 0 ELSE IF p > 100 THEN 100 ELSE p

\* the get_or_create loop of course_bulk_enroll over the department's users
RECURSIVE BulkLoop(_, _, _, _, _)
BulkLoop(rows, todo, c, progress, t) ==
    IF todo = {} THEN rows
    ELSE LET u == CHOOSE x \in todo : \A y \in todo : x <= y
         IN  BulkLoop(GetOrCreate(rows, CreatedRow(u, c, progress, t)),
                      todo \ {u}, c, progress, t)

UsersOfDept(dep) == {u \in users : profile[u].has /\ profile[u].department = dep}

\* the two refusals of course_bulk_enroll
BulkRefused(requester, dep) ==
    \/ /\ IsManager(requester) /\ ~IsAdmin(requester)
       /\ DeptOf(requester) = NULL \/ dep = NULL \/ dep # DeptOf(requester)
    \/ dep = NULL

\* course_bulk_enroll POST
CourseBulkEnroll(requester, c, dep, initial_progress) ==
    /\ requester \in users /\ c \in courses
    /\ LET rows == IF BulkRefused(requester, dep) THEN enrollments
                   ELSE BulkLoop(enrollments, UsersOfDept(dep), c,
                                 Clamp(initial_progress), now)
           n == IF BulkRefused(requester, dep) THEN 0
                ELSE Cardinality(UsersOfDept(dep))
       IN  /\ Len(rows) <= MaxEnrollments
           /\ enrollments' = rows
           /\ resp' = [Resp(IF BulkRefused(requester, dep) THEN "bulk_refused"
                            ELSE "course_bulk_enroll", requester, c) EXCEPT
                         !.target = dep,
                         !.created = Len(rows) - Len(enrollments),
                         !.skipped = n - (Len(rows) - Len(enrollments))]
    /\ UNCHANGED <<session, pc, loc, now, users, superusers, profile, courses, rules, materials,
                   mprogress, quizzes, questions, choices, attempts, answers>>

\* ------------------------------------------------------------ quiz grading
QuestionsOf(qz) == {q \in DOMAIN questions : questions[q].quiz = qz}

RECURSIVE SumPoints(_)
SumPoints(qs) ==
    IF qs = {} THEN 0
    ELSE LET q == CHOOSE x \in qs : TRUE
         IN  questions[q].points + SumPoints(qs \ {q})

\* AnswerPoints counting every selected choice, correct or not
AnswerPoints_AnySelected(ans) ==
    LET q == questions[ans.question]
    IN  IF q.question_type \in {MULTIPLE, TRUE_FALSE} /\ ans.selected_choice # NULL
        THEN q.points ELSE 0

\* what one answer adds to obtained
AnswerPoints(ans) ==
    LET q == questions[ans.question]
    IN  IF /\ q.question_type \in {MULTIPLE, TRUE_FALSE}
           /\ ans.selected_choice # NULL
           /\ choices[ans.selected_choice].is_correct
        THEN q.points ELSE 0

RECURSIVE Obtained(_, _)
Obtained(ans, ids) ==
    IF ids = {} THEN 0
    ELSE LET i == CHOOSE x \in ids : TRUE
         IN  AnswerPoints(ans[i]) + Obtained(ans, ids \ {i})

\* "sum(q.points for q in questions) or 1"
TotalPoints(qz) == IF SumPoints(QuestionsOf(qz)) = 0 THEN 1
                   ELSE SumPoints(QuestionsOf(qz))

\* round(100 * obtained / total_points, 2), kept in hundredths of a percent
ScorePct(obtained, total) == PyRound(10000 * obtained, total)

\* Graded passing only above pass_score
Graded_StrictPass(att, ans, a, t) ==
    LET got == Obtained(ans, {i \in DOMAIN ans : ans[i].attempt = a})
        score == ScorePct(got, TotalPoints(att.quiz))
    IN  [att EXCEPT !.score = score,
                    !.passed = score > 100 * quizzes[att.quiz].pass_score,
                    !.finished_at = t]

\* the attempt row grade_attempt saves, given the QuizAnswer table
Graded(att, ans, a, t) ==
    LET got == Obtained(ans, {i \in DOMAIN ans : ans[i].attempt = a})
        score == ScorePct(got, TotalPoints(att.quiz))
    IN  [att EXCEPT !.score = score,
                    !.passed = score >= 100 * quizzes[att.quiz].pass_score,
                    !.finished_at = t]

\* ShouldComplete whatever the outcome of the attempt
ShouldComplete_Always(att) == TRUE

\* "if attempt.passed:", the test in front of the completion side effect
ShouldComplete(att) == att.passed

\* CompletionRows without the completion side effect
CompletionRows_Skipped(rows, att, t) == rows

\* the tail of grade_attempt: the enrollment of (attempt.user, quiz.course), if
\* there is one and the attempt passed, is marked completed
CompletionRows(rows, att, t) ==
    LET c == quizzes[att.quiz].course
    IN  IF EnrollmentPks(rows, att.user, c) = {} \/ ~ShouldComplete(att) THEN rows
        ELSE [rows EXCEPT ![Pk(rows, att.user, c)] = MarkCompleted(@, t)]

\* the choice quiz_take stores for a question: the posted one when it is a
\* choice of that question, else none
Selected(q, choice_id) ==
    IF choice_id \in DOMAIN choices /\ choices[choice_id].question = q
    THEN choice_id ELSE NULL

RECURSIVE AnswerRows(_, _, _, _)
AnswerRows(ans, a, qs, post) ==
    IF qs = {} THEN ans
    ELSE LET q == CHOOSE x \in qs : \A y \in qs : x <= y
         IN  AnswerRows(Append(ans, [attempt |-> a, question |-> q,
                                     selected_choice |-> Selected(q, post[q])]),
                        a, qs \ {q}, post)

\* quiz_take POST: a new attempt, one answer per question, grade_attempt
QuizTake(u, qz, post) ==
    /\ u \in users /\ qz \in DOMAIN quizzes /\ quizzes[qz].active
    /\ LET a == Len(attempts) + 1
           ans == AnswerRows(answers, a, QuestionsOf(qz), post)
           att == Graded([quiz |-> qz, user |-> u, score |-> NULL,
                          passed |-> FALSE, finished_at |-> NULL], ans, a, now)
       IN  /\ answers' = ans
           /\ attempts' = Append(attempts, att)
           /\ enrollments' = CompletionRows(enrollments, att, now)
           /\ resp' = [Resp("quiz_take", u, quizzes[qz].course) EXCEPT !.created = a]
    /\ UNCHANGED <<session, pc, loc, now, users, superusers, profile, courses, rules, materials,
                   mprogress, quizzes, questions, choices>>

\* "allowed = quiz.attempts_allowed or 1"
Allowed(qz) == IF quizzes[qz].attempts_allowed = 0 THEN 1
               ELSE quizzes[qz].attempts_allowed

\* QuizAttempt.objects.filter(quiz, user).count()
Used(rows, qz, u) ==
    Cardinality({a \in DOMAIN rows : rows[a].quiz = qz /\ rows[a].user = u})

\* quiz_take GET: the form, or the 403 page once the attempts are used up
QuizForm(u, qz) ==
    /\ u \in users /\ qz \in DOMAIN quizzes /\ quizzes[qz].active
    /\ resp' = [Resp("quiz_form", u, quizzes[qz].course) EXCEPT
                  !.refused = Used(attempts, qz, u) >= Allowed(qz)]
    /\ UNCHANGED <<session, pc, loc, now, users, superusers, profile, courses, rules,
                   materials, mprogress, enrollments, quizzes, questions, choices,
                   attempts, answers>>

\* the four choice fields of the quiz builder's forms
ChoiceSlots == 1..4

\* the Choice rows written for the filled fields of a MULTIPLE question
NewChoices(q, filled, correct_idx) ==
    LET slots == SelectSeq(<<1, 2, 3, 4>>, LAMBDA i : i \in filled)
    IN  [k \in 1..Len(slots) |-> [question |-> q, is_correct |-> slots[k] = correct_idx]]

\* the two Choice rows of a TRUE_FALSE question
TrueFalseChoices(q, true_is_correct) ==
    <<[question |-> q, is_correct |-> true_is_correct],
      [question |-> q, is_correct |-> ~true_is_correct]>>

\* question.choices.all().delete(): the rows are gone, their pks are not reused
DeleteChoices(rows, q) ==
    [i \in DOMAIN rows |-> IF rows[i].question = q
                           THEN [question |-> NULL, is_correct |-> FALSE]
                           ELSE rows[i]]

\* QuestionCreateForm.is_valid(): points of at least 1 and, for MULTIPLE, two
\* filled choices and a selected correct choice that has text
FormValid(kind, points, filled, correct) ==
    /\ points >= 1
    /\ kind = MULTIPLE =>
         (Cardinality(filled) >= 2 /\ correct # NULL /\ correct \in filled)

\* quiz_add_question POST
QuizAddQuestion(qz, kind, points, filled, correct, true_is_correct) ==
    /\ qz \in DOMAIN quizzes
    /\ LET valid == FormValid(kind, points, filled, correct)
           q == Len(questions) + 1
       IN  /\ questions' = IF valid
                           THEN Append(questions, [quiz |-> qz, question_type |-> kind,
                                                   points |-> points])
                           ELSE questions
           /\ choices' = IF ~valid \/ kind = SHORT_TEXT THEN choices
                         ELSE IF kind = MULTIPLE
                         THEN choices \o NewChoices(q, filled, correct)
                         ELSE choices \o TrueFalseChoices(q, true_is_correct)
           /\ resp' = [Resp("quiz_add_question", NULL, quizzes[qz].course) EXCEPT
                         !.kind = kind, !.touched = filled, !.target = correct,
                         !.refused = ~valid]
    /\ UNCHANGED <<session, pc, loc, now, users, superusers, profile, courses, rules,
                   materials, mprogress, enrollments, quizzes, attempts, answers>>

\* question_edit POST by a staff user with a number in "points" and no text:
\* the points are saved, and the choices are rebuilt from the posted fields
\* while nobody answered the question
QuestionEdit(q, points, filled, correct, true_is_correct) ==
    /\ q \in DOMAIN questions
    /\ LET has_answers == \E i \in DOMAIN answers : answers[i].question = q
           kind == questions[q].question_type
           correct_idx == IF correct = NULL THEN 1 ELSE correct
       IN  /\ choices' = IF has_answers \/ kind = SHORT_TEXT THEN choices
                         ELSE IF kind = MULTIPLE
                         THEN DeleteChoices(choices, q) \o NewChoices(q, filled, correct_idx)
                         ELSE DeleteChoices(choices, q)
                                \o TrueFalseChoices(q, true_is_correct)
           /\ resp' = [Resp("question_edit", NULL, quizzes[questions[q].quiz].course)
                         EXCEPT !.kind = kind, !.touched = filled, !.target = correct,
                                !.created = q]
    /\ questions' = [questions EXCEPT ![q].points = points]
    /\ UNCHANGED <<session, pc, loc, now, users, superusers, profile, courses, rules,
                   materials, mprogress, enrollments, quizzes, attempts, answers>>

\* admin_grade_attempts: grade_attempt on a stored attempt
AdminGrade(a) ==
    /\ a \in DOMAIN attempts
    /\ LET att == Graded(attempts[a], answers, a, now)
       IN  /\ attempts' = [attempts EXCEPT ![a] = att]
           /\ enrollments' = CompletionRows(enrollments, att, now)
           /\ resp' = [Resp("admin_grade", att.user, quizzes[att.quiz].course)
                         EXCEPT !.created = a]
    /\ UNCHANGED <<session, pc, loc, now, users, superusers, profile, courses, rules, materials,
                   mprogress, quizzes, questions, choices, answers>>

\* ------------------------------------------------------------ impersonation
\* django.contrib.auth.login(request, user): a session that belongs to another
\* authenticated user is flushed, every key of it is gone, before the new
\* user is written into it
Login(sess, u) ==
    IF sess.user # NULL /\ sess.user # u THEN [NoSession EXCEPT !.user = u]
    ELSE [sess EXCEPT !.user = u]

\* LoginView: somebody logs in with this browser
SessionLogin(u) ==
    /\ u \in users
    /\ session' = Login(session, u)
    /\ resp' = Resp("login", u, NULL)
    /\ UNCHANGED <<pc, loc, now, users, superusers, profile, courses, rules, materials,
                   mprogress, enrollments, quizzes, questions, choices, attempts,
                   answers>>

\* LogoutView: the session is flushed
SessionLogout ==
    /\ session.user # NULL
    /\ session' = NoSession
    /\ resp' = Resp("logout", session.user, NULL)
    /\ UNCHANGED <<pc, loc, now, users, superusers, profile, courses, rules, materials,
                   mprogress, enrollments, quizzes, questions, choices, attempts,
                   answers>>

\* StartRefused without the test for the requester's own id
StartRefused_NoSelfTest(u, target) == ~IsAdmin(u) \/ target \notin users

\* StartRefused without the test for an administrator
StartRefused_NoAdminTest(u, target) == target \notin users \/ u = target

\* impersonate_start up to its second return: not an administrator, no such
\* user (404), or the requester's own id
StartRefused(u, target) == ~IsAdmin(u) \/ target \notin users \/ u = target

\* impersonate_start (core.extra_views, the one the URLconf routes) requested
\* by the logged-in user: both keys are written, then login() as the target
ImpersonateStart(target) ==
    /\ session.user # NULL
    /\ session' =
         IF StartRefused(session.user, target) THEN session
         ELSE Login([session EXCEPT !.impersonator_id = session.user,
                                    !.is_impersonating = TRUE], target)
    /\ resp' = [Resp("impersonate_start", session.user, NULL) EXCEPT
                  !.target = target,
                  !.refused = StartRefused(session.user, target)]
    /\ UNCHANGED <<pc, loc, now, users, superusers, profile, courses, rules, materials,
                   mprogress, enrollments, quizzes, questions, choices, attempts,
                   answers>>

\* Stopped logging the browser out when nothing is recorded
Stopped_LogsOut(sess) ==
    LET orig_id == sess.impersonator_id
        popped == [sess EXCEPT !.impersonator_id = NULL, !.is_impersonating = FALSE]
    IN  IF orig_id # NULL /\ orig_id \in users THEN Login(popped, orig_id)
        ELSE NoSession

\* the session impersonate_stop leaves: both keys are popped; with a recorded
\* impersonator that still exists, login() as that user
Stopped(sess) ==
    LET orig_id == sess.impersonator_id
        popped == [sess EXCEPT !.impersonator_id = NULL, !.is_impersonating = FALSE]
    IN  IF orig_id # NULL /\ orig_id \in users THEN Login(popped, orig_id)
        ELSE popped

\* impersonate_stop requested by the logged-in user
ImpersonateStop ==
    /\ session.user # NULL
    /\ session' = Stopped(session)
    /\ resp' = [Resp("impersonate_stop", session.user, NULL) EXCEPT
                  !.refused = (session.impersonator_id = NULL)]
    /\ UNCHANGED <<pc, loc, now, users, superusers, profile, courses, rules, materials,
                   mprogress, enrollments, quizzes, questions, choices, attempts,
                   answers>>

\* --------------------------------------------- concurrent post_save receivers
\* Two requests save a MaterialProgress row each; every query of the receiver
\* (recompute_enrollment_progress_for) is a step of its own.
Procs == 1..2

NoLocals ==
    [user |-> NULL, course |-> NULL, total |-> 0, percent |-> 0, pk |-> NULL,
     enr |-> NewEnrollment(NULL, NULL, NULL, TRUE, FALSE, 0)]

RaceFrame ==
    UNCHANGED <<session, now, users, superusers, profile, courses, rules, materials,
                quizzes, questions, choices, attempts, answers, resp>>

\* MaterialProgress.save(): the row is written, the receiver starts
RaceWrite(p, u, m, done) ==
    /\ pc[p] = "idle"
    /\ u \in users /\ m \in DOMAIN materials /\ materials[m] # NULL
    /\ mprogress' = {x \in mprogress : ~(x.user = u /\ x.material = m)}
                       \cup {[user |-> u, material |-> m, is_completed |-> done]}
    /\ loc' = [loc EXCEPT ![p] = [NoLocals EXCEPT !.user = u,
                                                  !.course = materials[m]]]
    /\ pc' = [pc EXCEPT ![p] = "total"]
    /\ UNCHANGED enrollments
    /\ RaceFrame

\* total = course.materials.count()
RaceTotal(p) ==
    /\ pc[p] = "total"
    /\ LET total == Cardinality(MaterialsOf(materials, loc[p].course))
       IN  /\ loc' = [loc EXCEPT ![p].total = total, ![p].percent = 0]
           /\ pc' = [pc EXCEPT ![p] = IF total = 0 THEN "get" ELSE "done"]
    /\ UNCHANGED <<mprogress, enrollments>>
    /\ RaceFrame

\* done = MaterialProgress...count(); percent = int(round(100 * done / total))
RaceDone(p) ==
    /\ pc[p] = "done"
    /\ loc' = [loc EXCEPT ![p].percent =
                 PyRound(100 * CountDone(mprogress, materials, loc[p].user,
                                         loc[p].course), loc[p].total)]
    /\ pc' = [pc EXCEPT ![p] = "get"]
    /\ UNCHANGED <<mprogress, enrollments>>
    /\ RaceFrame

\* get_or_create, its SELECT
RaceGet(p) ==
    /\ pc[p] = "get"
    /\ LET pks == EnrollmentPks(enrollments, loc[p].user, loc[p].course)
       IN  IF pks = {}
           THEN /\ pc' = [pc EXCEPT ![p] = "create"]
                /\ UNCHANGED loc
           ELSE /\ pc' = [pc EXCEPT ![p] = "save"]
                /\ loc' = [loc EXCEPT
                             ![p].pk = Pk(enrollments, loc[p].user, loc[p].course),
                             ![p].enr = enrollments[Pk(enrollments, loc[p].user,
                                                       loc[p].course)]]
    /\ UNCHANGED <<mprogress, enrollments>>
    /\ RaceFrame

\* get_or_create, its INSERT; on IntegrityError the row is fetched instead
RaceCreate(p) ==
    /\ pc[p] = "create"
    /\ LET rows == InsertEnrollment(enrollments,
                      NewEnrollment(loc[p].user, loc[p].course, NULL, TRUE, FALSE, 0))
           pk == Pk(rows, loc[p].user, loc[p].course)
       IN  /\ enrollments' = rows
           /\ loc' = [loc EXCEPT ![p].pk = pk, ![p].enr = rows[pk]]
    /\ pc' = [pc EXCEPT ![p] = "save"]
    /\ UNCHANGED mprogress
    /\ RaceFrame

\* enr.save(update_fields=["status", "progress", "completed_at"]): the three
\* columns of the row are overwritten with the values of the copy held
RaceSave(p) ==
    /\ pc[p] = "save"
    /\ LET enr == Recomputed(loc[p].enr, loc[p].percent, now)
       IN  enrollments' = [enrollments EXCEPT
                             ![loc[p].pk].status = enr.status,
                             ![loc[p].pk].progress = enr.progress,
                             ![loc[p].pk].completed_at = enr.completed_at]
    /\ pc' = [pc EXCEPT ![p] = "finished"]
    /\ UNCHANGED <<mprogress, loc>>
    /\ RaceFrame

\* a MaterialProgress save handled alone, before the two requests arrive
RaceBefore(u, m, done) ==
    /\ \A p \in Procs : pc[p] = "idle"
    /\ SaveMaterialProgress(u, m, done)

\* one more recompute once every receiver has returned
RaceSettle(u, c) ==
    /\ \A p \in Procs : pc[p] = "finished"
    /\ Recompute(u, c)

\* ------------------------------------------------------------ the program
Rule(dep, role, c, days, required, active) ==
    [department |-> dep, role |-> role, course |-> c, due_in_days |-> days,
     required |-> required, active |-> active]

NoProfile == [has |-> FALSE, role |-> NoRef, department |-> NULL]

HasProfile(role, dep) == [has |-> TRUE, role |-> role, department |-> dep]

\* inputs of the requests
DueDates == {NULL, 0, 1}
PostedProgress == {0, 50, 100}
PostedInitial == {0, 150}
PostedDepts == DeptIds \cup {NULL}

\* the life of an enrollment: one course with a one-question quiz, its
\* materials, one manager of department 1
Init ==
    /\ now = 0
    /\ users = {1}
    /\ superusers = {}
    /\ profile = [u \in UserIds |-> IF u = 1 THEN HasProfile(ROLE_MANAGER, 1)
                                    ELSE HasProfile(ROLE_LEARNER, 1)]
    /\ courses = {1}
    /\ rules = <<>>
    /\ materials = [m \in 1..MaxMaterials |-> NULL]
    /\ mprogress = {}
    /\ enrollments = <<>>
    /\ quizzes = <<[course |-> 1, pass_score |-> 70, attempts_allowed |-> 1,
                    active |-> TRUE]>>
    /\ questions = <<[quiz |-> 1, question_type |-> MULTIPLE, points |-> 1]>>
    /\ choices = <<[question |-> 1, is_correct |-> TRUE],
                   [question |-> 1, is_correct |-> FALSE]>>
    /\ attempts = <<>>
    /\ answers = <<>>
    /\ resp = Resp("init", NULL, NULL)
    /\ session = NoSession
    /\ pc = [p \in Procs |-> "idle"]
    /\ loc = [p \in Procs |-> NoLocals]

Posts(qz) == [QuestionsOf(qz) -> DOMAIN choices \cup {NULL}]

Next ==
    \/ Tick
    \/ \E c \in CourseIds : AddMaterial(c)
    \/ \E u \in UserIds, m \in DOMAIN materials, done \in BOOLEAN :
         SaveMaterialProgress(u, m, done)
    \/ \E u \in UserIds, c \in CourseIds : Recompute(u, c)
    \/ \E u \in UserIds, c \in CourseIds, p \in PostedProgress :
         EnrollmentCreate(u, c, p)
    \/ \E u \in UserIds, qz \in DOMAIN quizzes : \E post \in Posts(qz) :
         Len(attempts) < MaxAttempts /\ QuizTake(u, qz, post)
    \/ \E a \in DOMAIN attempts : AdminGrade(a)

Spec == Init /\ [][Next]_vars

\* the progress aggregator on one user and one course of up to MaxTotal
\* materials, with enrollments that carry a due date
InitRecompute ==
    /\ now = 0
    /\ users = {1}
    /\ superusers = {}
    /\ profile = [u \in UserIds |-> NoProfile]
    /\ courses = {1}
    /\ rules = <<>>
    /\ materials = [m \in 1..MaxTotal |-> NULL]
    /\ mprogress = {}
    /\ enrollments = <<>>
    /\ quizzes = <<>>
    /\ questions = <<>>
    /\ choices = <<>>
    /\ attempts = <<>>
    /\ answers = <<>>
    /\ resp = Resp("init", NULL, NULL)
    /\ session = NoSession
    /\ pc = [p \in Procs |-> "idle"]
    /\ loc = [p \in Procs |-> NoLocals]

NextRecompute ==
    \/ Tick
    \/ \E c \in CourseIds : AddMaterial(c)
    \/ \E u \in UserIds, m \in DOMAIN materials, done \in BOOLEAN :
         SaveMaterialProgress(u, m, done)
    \/ \E u \in UserIds, c \in CourseIds : Recompute(u, c)
    \/ \E u \in UserIds, c \in CourseIds, due \in DueDates :
         AssignCourse(u, c, due, TRUE, FALSE)

SpecRecompute == InitRecompute /\ [][NextRecompute]_vars

\* the progress aggregator on a course whose materials come and go
InitDue ==
    /\ now = 0
    /\ users = {1}
    /\ superusers = {}
    /\ profile = [u \in UserIds |-> NoProfile]
    /\ courses = {1}
    /\ rules = <<>>
    /\ materials = [m \in 1..MaxMaterials |-> NULL]
    /\ mprogress = {}
    /\ enrollments = <<>>
    /\ quizzes = <<>>
    /\ questions = <<>>
    /\ choices = <<>>
    /\ attempts = <<>>
    /\ answers = <<>>
    /\ resp = Resp("init", NULL, NULL)
    /\ session = NoSession
    /\ pc = [p \in Procs |-> "idle"]
    /\ loc = [p \in Procs |-> NoLocals]

NextDue ==
    \/ NextRecompute
    \/ \E m \in DOMAIN materials : DeleteMaterial(m)

SpecDue == InitDue /\ [][NextDue]_vars

\* the ways an Enrollment row comes to be: two users of department 1, one
\* course, one rule for everybody
InitEnroll ==
    /\ now = 0
    /\ users = {1, 2}
    /\ superusers = {}
    /\ profile = [u \in UserIds |-> IF u = 1 THEN HasProfile(ROLE_MANAGER, 1)
                                    ELSE HasProfile(ROLE_LEARNER, 1)]
    /\ courses = {1}
    /\ rules = <<Rule(NULL, NoRef, 1, 1, TRUE, TRUE)>>
    /\ materials = [m \in 1..MaxMaterials |-> NULL]
    /\ mprogress = {}
    /\ enrollments = <<>>
    /\ quizzes = <<>>
    /\ questions = <<>>
    /\ choices = <<>>
    /\ attempts = <<>>
    /\ answers = <<>>
    /\ resp = Resp("init", NULL, NULL)
    /\ session = NoSession
    /\ pc = [p \in Procs |-> "idle"]
    /\ loc = [p \in Procs |-> NoLocals]

NextEnroll ==
    \/ Tick
    \/ \E u \in UserIds, c \in CourseIds, due \in DueDates :
         AssignCourse(u, c, due, TRUE, FALSE)
    \/ \E u \in UserIds : AssignByRules(u)
    \/ \E u \in UserIds, c \in CourseIds : Recompute(u, c)
    \/ \E u \in UserIds, c \in CourseIds, p \in PostedProgress :
         EnrollmentCreate(u, c, p)
    \/ \E u \in UserIds, c \in CourseIds, dep \in PostedDepts, p \in PostedInitial :
         CourseBulkEnroll(u, c, dep, p)

SpecEnroll == InitEnroll /\ [][NextEnroll]_vars

\* the rule engine on one user: two rules and the user's profile are drawn
\* from the values an administrator can store
FirstRules ==
    {Rule(dep, role, 1, days, required, active) :
        dep \in {NULL, 1, 2}, role \in {NoRef, ROLE_LEARNER, ROLE_MANAGER},
        days \in {NULL, 0, 1}, required \in BOOLEAN, active \in BOOLEAN}

SecondRules ==
    {Rule(dep, role, c, days, TRUE, active) :
        dep \in {NULL, 1}, role \in {NoRef, ROLE_LEARNER}, c \in CourseIds,
        days \in {NULL, 2}, active \in BOOLEAN}

Profiles ==
    {NoProfile, HasProfile(ROLE_LEARNER, NULL), HasProfile(ROLE_LEARNER, 1),
     HasProfile(ROLE_MANAGER, 1)}

InitRules ==
    /\ now = 0
    /\ users = {1}
    /\ superusers = {}
    /\ \E p \in Profiles : profile = [u \in UserIds |-> p]
    /\ courses = CourseIds
    /\ \E r1 \in FirstRules, r2 \in SecondRules : rules = <<r1, r2>>
    /\ materials = [m \in 1..MaxMaterials |-> NULL]
    /\ mprogress = {}
    /\ enrollments = <<>>
    /\ quizzes = <<>>
    /\ questions = <<>>
    /\ choices = <<>>
    /\ attempts = <<>>
    /\ answers = <<>>
    /\ resp = Resp("init", NULL, NULL)
    /\ session = NoSession
    /\ pc = [p \in Procs |-> "idle"]
    /\ loc = [p \in Procs |-> NoLocals]

NextRules ==
    \/ Tick
    \/ \E u \in UserIds : AssignByRules(u)
    \/ \E u \in UserIds, c \in CourseIds : EnrollmentCreate(u, c, 0)

SpecRules == InitRules /\ [][NextRules]_vars

\* two receivers racing on the one course of two materials; the enrollment is
\* absent or was assigned with some due date
InitRace ==
    /\ now = 0
    /\ users = {1}
    /\ superusers = {}
    /\ profile = [u \in UserIds |-> NoProfile]
    /\ courses = {1}
    /\ rules = <<>>
    /\ materials = [m \in 1..MaxMaterials |-> 1]
    /\ mprogress = {}
    /\ enrollments \in {<<>>} \cup
           {<<NewEnrollment(1, 1, due, TRUE, FALSE, 0)>> : due \in DueDates}
    /\ quizzes = <<>>
    /\ questions = <<>>
    /\ choices = <<>>
    /\ attempts = <<>>
    /\ answers = <<>>
    /\ resp = Resp("init", NULL, NULL)
    /\ session = NoSession
    /\ pc = [p \in Procs |-> "idle"]
    /\ loc = [p \in Procs |-> NoLocals]

NextRace ==
    \/ Tick
    \/ \E u \in UserIds, m \in DOMAIN materials, done \in BOOLEAN :
         RaceBefore(u, m, done)
    \/ \E p \in Procs, u \in UserIds, m \in DOMAIN materials, done \in BOOLEAN :
         RaceWrite(p, u, m, done)
    \/ \E p \in Procs : RaceTotal(p)
    \/ \E p \in Procs : RaceDone(p)
    \/ \E p \in Procs : RaceGet(p)
    \/ \E p \in Procs : RaceCreate(p)
    \/ \E p \in Procs : RaceSave(p)
    \/ \E u \in UserIds, c \in CourseIds : RaceSettle(u, c)

SpecRace == InitRace /\ [][NextRace]_vars

\* grade_attempt on the quizzes an author can build: the kinds of the
\* questions and the pass score are drawn, question i weighs i points, every
\* MULTIPLE or TRUE_FALSE question has a correct and a wrong choice
QuizShapes ==
    {<<>>, <<MULTIPLE>>, <<SHORT_TEXT>>, <<MULTIPLE, TRUE_FALSE>>,
     <<MULTIPLE, MULTIPLE, MULTIPLE>>, <<MULTIPLE, TRUE_FALSE, SHORT_TEXT>>}

PassScores == {0, 50, 60}

QuestionRows(kinds) ==
    [i \in 1..Len(kinds) |-> [quiz |-> 1, question_type |-> kinds[i], points |-> i]]

RECURSIVE ChoiceRows(_, _)
ChoiceRows(kinds, i) ==
    IF i > Len(kinds) THEN <<>>
    ELSE (IF kinds[i] = SHORT_TEXT THEN <<>>
          ELSE <<[question |-> i, is_correct |-> TRUE],
                 [question |-> i, is_correct |-> FALSE]>>)
         \o ChoiceRows(kinds, i + 1)

InitGrade ==
    /\ now = 0
    /\ users = {1}
    /\ superusers = {}
    /\ profile = [u \in UserIds |-> NoProfile]
    /\ courses = {1}
    /\ rules = <<>>
    /\ materials = [m \in 1..MaxMaterials |-> NULL]
    /\ mprogress = {}
    /\ enrollments = <<>>
    /\ \E kinds \in QuizShapes, score \in PassScores :
         /\ quizzes = <<[course |-> 1, pass_score |-> score, attempts_allowed |-> 1,
                         active |-> TRUE]>>
         /\ questions = QuestionRows(kinds)
         /\ choices = ChoiceRows(kinds, 1)
    /\ attempts = <<>>
    /\ answers = <<>>
    /\ resp = Resp("init", NULL, NULL)
    /\ session = NoSession
    /\ pc = [p \in Procs |-> "idle"]
    /\ loc = [p \in Procs |-> NoLocals]

NextGrade ==
    \/ \E u \in UserIds, c \in CourseIds : EnrollmentCreate(u, c, 0)
    \/ \E u \in UserIds, qz \in DOMAIN quizzes : \E post \in Posts(qz) :
         Len(attempts) < MaxAttempts /\ QuizTake(u, qz, post)
    \/ \E a \in DOMAIN attempts : AdminGrade(a)

SpecGrade == InitGrade /\ [][NextGrade]_vars

\* the attempts of one user at one quiz of a single one-point question, and
\* what staff does to them afterwards
AllowedAttempts == {1, 2}
PostedPoints == {0, 2}

InitAttempts ==
    /\ now = 0
    /\ users = {1}
    /\ superusers = {}
    /\ profile = [u \in UserIds |-> NoProfile]
    /\ courses = {1}
    /\ rules = <<>>
    /\ materials = [m \in 1..MaxMaterials |-> NULL]
    /\ mprogress = {}
    /\ enrollments = <<>>
    /\ \E allowed \in AllowedAttempts :
         quizzes = <<[course |-> 1, pass_score |-> 70, attempts_allowed |-> allowed,
                      active |-> TRUE]>>
    /\ questions = QuestionRows(<<MULTIPLE>>)
    /\ choices = ChoiceRows(<<MULTIPLE>>, 1)
    /\ attempts = <<>>
    /\ answers = <<>>
    /\ resp = Resp("init", NULL, NULL)
    /\ session = NoSession
    /\ pc = [p \in Procs |-> "idle"]
    /\ loc = [p \in Procs |-> NoLocals]

NextAttempts ==
    \/ Tick
    \/ \E u \in UserIds, qz \in DOMAIN quizzes : QuizForm(u, qz)
    \/ \E u \in UserIds, qz \in DOMAIN quizzes : \E post \in Posts(qz) :
         Len(attempts) <= MaxAttempts /\ QuizTake(u, qz, post)
    \/ \E a \in DOMAIN attempts : AdminGrade(a)
    \/ \E u \in UserIds, c \in CourseIds : EnrollmentCreate(u, c, 0)
    \/ \E q \in DOMAIN questions, points \in PostedPoints :
         /\ \E i \in DOMAIN answers : answers[i].question = q
         /\ QuestionEdit(q, points, {}, NULL, FALSE)

SpecAttempts == InitAttempts /\ [][NextAttempts]_vars

\* one browser session and the accounts an administrator can store: every
\* combination of superuser flags and profiles of two users
SessionProfiles ==
    {NoProfile, HasProfile(ROLE_LEARNER, NULL), HasProfile(ROLE_MANAGER, NULL),
     HasProfile(ROLE_ADMIN, NULL)}

TargetIds == 1..3

InitSession ==
    /\ now = 0
    /\ users = UserIds
    /\ superusers \in SUBSET UserIds
    /\ profile \in [UserIds -> SessionProfiles]
    /\ courses = {1}
    /\ rules = <<>>
    /\ materials = [m \in 1..MaxMaterials |-> NULL]
    /\ mprogress = {}
    /\ enrollments = <<>>
    /\ quizzes = <<>>
    /\ questions = <<>>
    /\ choices = <<>>
    /\ attempts = <<>>
    /\ answers = <<>>
    /\ resp = Resp("init", NULL, NULL)
    /\ session = NoSession
    /\ pc = [p \in Procs |-> "idle"]
    /\ loc = [p \in Procs |-> NoLocals]

NextSession ==
    \/ \E u \in UserIds : SessionLogin(u)
    \/ SessionLogout
    \/ \E target \in TargetIds : ImpersonateStart(target)
    \/ ImpersonateStop

SpecSession == InitSession /\ [][NextSession]_vars

\* bulk enrollment by department: two users whose profiles, and the superuser
\* flag of the first, are drawn; one course
BulkProfiles ==
    {NoProfile} \cup {HasProfile(role, dep) : role \in Roles, dep \in {NULL} \cup DeptIds}

InitBulk ==
    /\ now = 0
    /\ users = UserIds
    /\ superusers \in {{}, {1}}
    /\ profile \in [UserIds -> BulkProfiles]
    /\ courses = {1}
    /\ rules = <<>>
    /\ materials = [m \in 1..MaxMaterials |-> NULL]
    /\ mprogress = {}
    /\ enrollments = <<>>
    /\ quizzes = <<>>
    /\ questions = <<>>
    /\ choices = <<>>
    /\ attempts = <<>>
    /\ answers = <<>>
    /\ resp = Resp("init", NULL, NULL)
    /\ session = NoSession
    /\ pc = [p \in Procs |-> "idle"]
    /\ loc = [p \in Procs |-> NoLocals]

NextBulk ==
    \/ \E u \in UserIds, c \in CourseIds : EnrollmentCreate(u, c, 0)
    \/ \E u \in UserIds, c \in CourseIds, dep \in PostedDepts, p \in PostedInitial :
         CourseBulkEnroll(u, c, dep, p)

SpecBulk == InitBulk /\ [][NextBulk]_vars

\* user creation: no user yet, two rules as in SpecRules
InitHook ==
    /\ now = 0
    /\ users = {}
    /\ superusers = {}
    /\ profile = [u \in UserIds |-> NoProfile]
    /\ courses = CourseIds
    /\ \E r1 \in FirstRules, r2 \in SecondRules : rules = <<r1, r2>>
    /\ materials = [m \in 1..MaxMaterials |-> NULL]
    /\ mprogress = {}
    /\ enrollments = <<>>
    /\ quizzes = <<>>
    /\ questions = <<>>
    /\ choices = <<>>
    /\ attempts = <<>>
    /\ answers = <<>>
    /\ resp = Resp("init", NULL, NULL)
    /\ session = NoSession
    /\ pc = [p \in Procs |-> "idle"]
    /\ loc = [p \in Procs |-> NoLocals]

NextHook ==
    \/ Tick
    \/ \E u \in UserIds, dep \in PostedDepts, role \in Roles : UserCreate(u, dep, role)

SpecHook == InitHook /\ [][NextHook]_vars

\* the quiz builder: one quiz that starts without questions
Kinds == {MULTIPLE, TRUE_FALSE, SHORT_TEXT}

PostedCorrect == ChoiceSlots \cup {NULL}

InitBuilder ==
    /\ now = 0
    /\ users = {1}
    /\ superusers = {}
    /\ profile = [u \in UserIds |-> NoProfile]
    /\ courses = {1}
    /\ rules = <<>>
    /\ materials = [m \in 1..MaxMaterials |-> NULL]
    /\ mprogress = {}
    /\ enrollments = <<>>
    /\ quizzes = <<[course |-> 1, pass_score |-> 70, attempts_allowed |-> 1,
                    active |-> TRUE]>>
    /\ questions = <<>>
    /\ choices = <<>>
    /\ attempts = <<>>
    /\ answers = <<>>
    /\ resp = Resp("init", NULL, NULL)
    /\ session = NoSession
    /\ pc = [p \in Procs |-> "idle"]
    /\ loc = [p \in Procs |-> NoLocals]

NextBuilder ==
    \/ \E qz \in DOMAIN quizzes, kind \in Kinds, points \in PostedPoints,
          filled \in SUBSET ChoiceSlots, correct \in PostedCorrect,
          true_is_correct \in BOOLEAN :
         /\ Len(questions) < MaxQuestions
         /\ QuizAddQuestion(qz, kind, points, filled, correct, true_is_correct)
    \/ \E q \in DOMAIN questions, points \in PostedPoints,
          filled \in SUBSET ChoiceSlots, correct \in PostedCorrect,
          true_is_correct \in BOOLEAN :
         /\ QuestionEdit(q, points, filled, correct, true_is_correct)
         /\ Len(choices') <= MaxChoiceRows

SpecBuilder == InitBuilder /\ [][NextBuilder]_vars

\* ------------------------------------------------------------------ claims
\* the operations that run recompute_enrollment_progress_for or grade_attempt
ProgressOps == {"recompute", "material_progress", "quiz_take", "admin_grade"}

\* C1: every Enrollment row has progress = 100 exactly when its status is
\* COMPLETED.  The code breaks it: enrollment_create and course_bulk_enroll
\* store a posted progress of 100 under the default status ASSIGNED.
C1_ProgressIffCompleted ==
    \A i \in DOMAIN enrollments :
        (enrollments[i].progress = 100) <=> (enrollments[i].status = COMPLETED)

\* C2: a step of recompute or of grade_attempt never changes a completed_at
\* that is already set, whatever the completion percent is at that step.
C2_CompletedAtWriteOnce ==
    [][resp'.op \in ProgressOps =>
         \A i \in DOMAIN enrollments :
             enrollments[i].completed_at # NULL =>
                 enrollments'[i].completed_at = enrollments[i].completed_at]_vars

\* C2 witness: a recompute ran later than the stamp, at a percent below 100
C2_Witness ==
    /\ resp.op = "recompute"
    /\ \E i \in DOMAIN enrollments :
         /\ enrollments[i].completed_at # NULL
         /\ enrollments[i].completed_at < now
         /\ enrollments[i].progress < 100

\* C3: a COMPLETED enrollment stays COMPLETED in every later step.  The code
\* breaks it: recompute derives the status anew from the current percent.
C3_NeverUncompleted ==
    [][\A i \in DOMAIN enrollments :
           enrollments[i].status = COMPLETED =>
               enrollments'[i].status = COMPLETED]_vars

\* C8: no (user, course) pair has more than one Enrollment row.
C8_OneRowPerPair ==
    \A u \in UserIds, c \in CourseIds :
        Cardinality(EnrollmentPks(enrollments, u, c)) <= 1

\* C8 witness: enrollment_create was refused for a pair that has its row
C8_Witness ==
    /\ resp.op = "enrollment_create" /\ resp.created = 0
    /\ EnrollmentPks(enrollments, resp.user, resp.course) # {}

\* the Enrollment row of the pair the last operation was about
RespRow == enrollments[Pk(enrollments, resp.user, resp.course)]

RespTotal == Cardinality(MaterialsOf(materials, resp.course))

RespDone == CountDone(mprogress, materials, resp.user, resp.course)

\* C4 as claimed: after recompute on a course without materials the row has
\* progress 0 and status ASSIGNED, whatever its due date.
C4_ZeroMaterialsAssigned ==
    resp.op = "recompute" /\ RespTotal = 0 =>
        RespRow.progress = 0 /\ RespRow.status = ASSIGNED

\* C4 amended: after recompute on a course without materials the row has
\* progress 0 and is never COMPLETED; its status is OVERDUE when a due date is
\* set and has passed, and ASSIGNED otherwise.
C4_ZeroMaterialsAssignedOrOverdue ==
    resp.op = "recompute" /\ RespTotal = 0 =>
        /\ RespRow.progress = 0
        /\ RespRow.status # COMPLETED
        /\ RespRow.status =
             IF RespRow.due_date # NULL /\ resp.day > RespRow.due_date
             THEN OVERDUE ELSE ASSIGNED

\* C4 witness: recompute on a course without materials, past the due date
C4_Witness ==
    /\ resp.op = "recompute" /\ RespTotal = 0
    /\ RespRow.due_date # NULL /\ resp.day > RespRow.due_date
    /\ RespRow.status = OVERDUE

\* C5: with total >= 1 materials of which done are completed, recompute stores
\* the integer nearest to 100 * done / total as progress, and the status is
\* OVERDUE when a due date is set, the percent is below 100 and the date is past
\* it; else ASSIGNED at 0, IN_PROGRESS between 0 and 100, COMPLETED at 100.
C5_PercentAndStatus ==
    resp.op \in {"recompute", "material_progress"} /\ RespTotal >= 1 =>
        LET p == RespRow.progress
            late == /\ RespRow.due_date # NULL /\ p < 100
                    /\ resp.day > RespRow.due_date
            off == p * RespTotal - 100 * RespDone
        IN  /\ 2 * off <= RespTotal /\ -2 * off <= RespTotal
            /\ (RespTotal = 4 /\ RespDone = 2) => p = 50
            /\ late => RespRow.status = OVERDUE
            /\ ~late /\ p = 0 => RespRow.status = ASSIGNED
            /\ ~late /\ 0 < p /\ p < 100 => RespRow.status = IN_PROGRESS
            /\ ~late /\ p = 100 => RespRow.status = COMPLETED
            /\ p \in 0..100

\* C5 witness: two of four materials completed give 50 and IN_PROGRESS
C5_Witness ==
    /\ resp.op = "material_progress"
    /\ RespTotal = 4 /\ RespDone = 2
    /\ RespRow.progress = 50 /\ RespRow.status = IN_PROGRESS

\* C6: a recompute that directly follows a recompute of the same user and
\* course on the same date, with no write in between, changes no Enrollment.
C6_RecomputeIdempotent ==
    [][(/\ resp.op = "recompute" /\ resp'.op = "recompute"
        /\ resp'.user = resp.user /\ resp'.course = resp.course
        /\ resp'.day = resp.day)
       => enrollments' = enrollments]_vars

\* C6 witness: the repeated call ran on a completed row, later than its stamp
C6_Witness ==
    /\ resp.op = "recompute" /\ resp.repeat
    /\ RespRow.status = COMPLETED
    /\ RespRow.completed_at < now

\* the stored progress and status of the pair the last operation was about are
\* the ones the MaterialProgress rows of now give on the day of the operation
RespRowAgrees ==
    LET p == RespRow.progress
        late == /\ RespRow.due_date # NULL /\ p < 100 /\ resp.day > RespRow.due_date
        off == p * RespTotal - 100 * RespDone
    IN  /\ 2 * off <= RespTotal /\ -2 * off <= RespTotal
        /\ RespRow.status = IF late THEN OVERDUE
                            ELSE IF p = 0 THEN ASSIGNED
                            ELSE IF p < 100 THEN IN_PROGRESS ELSE COMPLETED

\* C7: after two post_save receivers have run interleaved in any way, one more
\* recompute leaves progress and status as derived from the final
\* MaterialProgress rows.
C7_SettlesAfterRace ==
    (\A p \in Procs : pc[p] = "finished") /\ resp.op = "recompute" => RespRowAgrees

\* C7 witness: the receivers interleaved so that the values of one of them were
\* stale when it saved, and the recompute afterwards has run
C7_Witness ==
    /\ \A p \in Procs : pc[p] = "finished"
    /\ resp.op = "recompute"
    /\ \E p \in Procs : loc[p].percent # RespRow.progress
    /\ RespRow.progress = 100

\* the match of a rule as the rule engine is described: active, department
\* null or the user's, role null or the user's
RuleMatches(rule, u) ==
    /\ rule.active = TRUE
    /\ rule.department = NULL
         \/ (profile[u].has /\ rule.department = profile[u].department)
    /\ rule.role = NoRef \/ (profile[u].has /\ rule.role = profile[u].role)

\* C9: assign_by_rules(user) calls assign_course for a course exactly when some
\* active rule with matching (or null) department and role targets it; such a
\* course has its Enrollment afterwards, and the rows of every other course are
\* left as they were.
C9_RulesSelectCourses ==
    [][resp'.op = "assign_by_rules" =>
         \A c \in CourseIds :
             LET u == resp'.user
                 hit == \E r \in DOMAIN rules :
                            RuleMatches(rules[r], u) /\ rules[r].course = c
             IN  /\ c \in resp'.touched <=> hit
                 /\ hit => EnrollmentPks(enrollments', u, c) # {}
                 /\ ~hit =>
                      /\ EnrollmentPks(enrollments', u, c) = EnrollmentPks(enrollments, u, c)
                      /\ \A i \in EnrollmentPks(enrollments, u, c) :
                             enrollments'[i] = enrollments[i]]_vars

\* C9 witness: a user without profile got the course of the rule with both
\* filters null, and nothing from a rule that is inactive or does not match
C9_Witness ==
    /\ resp.op = "assign_by_rules"
    /\ ~profile[resp.user].has
    /\ rules[1].department = NULL /\ rules[1].role = NoRef /\ rules[1].active
    /\ rules[2].course = 2
    /\ resp.touched = {1}
    /\ EnrollmentPks(enrollments, resp.user, 1) # {}
    /\ EnrollmentPks(enrollments, resp.user, 2) = {}

\* C10: the Enrollment assign_by_rules creates for the one matching rule of a
\* course is auto_enrolled, has the rule's required flag, and is due
\* today + due_in_days when due_in_days is set (0 included), never when it is
\* null.  The code breaks it for due_in_days = 0, which it takes for unset.
C10_DueDateFromRule ==
    [][resp'.op = "assign_by_rules" =>
         \A r \in DOMAIN rules :
             LET u == resp'.user
                 c == rules[r].course
                 alone == \A q \in DOMAIN rules :
                              RuleMatches(rules[q], u) /\ rules[q].course = c => q = r
             IN  (/\ RuleMatches(rules[r], u) /\ alone
                  /\ EnrollmentPks(enrollments, u, c) = {}
                  /\ EnrollmentPks(enrollments', u, c) # {})
                 => LET e == enrollments'[Pk(enrollments', u, c)]
                    IN  /\ e.auto_enrolled = TRUE
                        /\ e.required = rules[r].required
                        /\ e.due_date = IF rules[r].due_in_days # NULL
                                        THEN Date(now) + rules[r].due_in_days
                                        ELSE NULL]_vars

\* C11: assign_course on a pair that has its Enrollment row writes the supplied
\* due date when the row has none, never replaces a stored due date, and
\* changes nothing else in the table.
C11_DueDateBackfillOnly ==
    [][(resp'.op = "assign_course" /\ now' = now
          /\ EnrollmentPks(enrollments, resp'.user, resp'.course) # {}) =>
         LET pk == Pk(enrollments, resp'.user, resp'.course)
             old == enrollments[pk]
         IN  enrollments' =
               [enrollments EXCEPT ![pk].due_date =
                   IF old.due_date = NULL THEN resp'.due ELSE old.due_date]]_vars

\* C11 witness: assign_course was given a due date other than the stored one
\* of an existing row
C11_Witness ==
    /\ resp.op = "assign_course" /\ resp.created = 0
    /\ resp.due # NULL /\ RespRow.due_date # NULL
    /\ RespRow.due_date # resp.due

\* the questions of the attempt's quiz that the attempt answered with a
\* correct choice
AnsweredRight(a) ==
    {q \in QuestionsOf(attempts[a].quiz) :
        /\ questions[q].question_type \in {MULTIPLE, TRUE_FALSE}
        /\ \E i \in DOMAIN answers :
             /\ answers[i].attempt = a /\ answers[i].question = q
             /\ answers[i].selected_choice # NULL
             /\ choices[answers[i].selected_choice].is_correct}

\* C12: the score of a graded attempt is 100 * obtained / total_points rounded
\* to two decimals (kept in hundredths), total_points being the points of all
\* questions of the quiz and obtained those of the MULTIPLE or TRUE_FALSE
\* questions answered with a correct choice.
C12_ScoreIsRoundedRatio ==
    \A a \in DOMAIN attempts :
        LET total == SumPoints(QuestionsOf(attempts[a].quiz))
            got == SumPoints(AnsweredRight(a))
            off == total * attempts[a].score - 10000 * got
        IN  total > 0 => (2 * off <= total /\ -2 * off <= total)

\* C12 witness: weights 1, 2 and 3, the first two answered right, pass score
\* 60: the attempt scores 50.00 and has not passed
C12_Witness ==
    \E a \in DOMAIN attempts :
        /\ [q \in DOMAIN questions |-> questions[q].points] = <<1, 2, 3>>
        /\ AnsweredRight(a) = {1, 2}
        /\ quizzes[attempts[a].quiz].pass_score = 60
        /\ attempts[a].score = 5000 /\ ~attempts[a].passed

\* C13: an attempt on a quiz without questions is graded to score 0 and has
\* passed exactly when the pass score is 0.
C13_EmptyQuizScoresZero ==
    \A a \in DOMAIN attempts :
        QuestionsOf(attempts[a].quiz) = {} =>
            /\ attempts[a].score = 0
            /\ attempts[a].finished_at # NULL
            /\ attempts[a].passed = (0 >= quizzes[attempts[a].quiz].pass_score)

\* C13 witness: a quiz without questions and with pass score 0 was taken, and
\* passed
C13_Witness ==
    \E a \in DOMAIN attempts :
        /\ QuestionsOf(attempts[a].quiz) = {}
        /\ quizzes[attempts[a].quiz].pass_score = 0
        /\ attempts[a].score = 0 /\ attempts[a].passed

\* C14: a step of grade_attempt stores score, finished_at and passed = (score
\* >= pass_score); if the attempt passed and its user had an Enrollment in the
\* quiz's course, that row ends COMPLETED with progress 100; if there was no
\* such row, the Enrollment table is left as it was.
C14_PassCompletesEnrollment ==
    [][(resp'.op \in {"quiz_take", "admin_grade"} /\ now' = now) =>
         LET att == attempts'[resp'.created]
             pks == EnrollmentPks(enrollments, att.user, resp'.course)
         IN  /\ att.score # NULL /\ att.finished_at = now
             /\ att.passed = (att.score >= 100 * quizzes[att.quiz].pass_score)
             /\ (att.passed /\ pks # {}) =>
                  \A pk \in pks : /\ enrollments'[pk].status = COMPLETED
                                  /\ enrollments'[pk].progress = 100
             /\ pks = {} => enrollments' = enrollments]_vars

\* C14 witness: a passed attempt completed the enrollment of its user
C14_Witness ==
    /\ resp.op \in {"quiz_take", "admin_grade"}
    /\ resp.created \in DOMAIN attempts /\ attempts[resp.created].passed
    /\ EnrollmentPks(enrollments, resp.user, resp.course) # {}
    /\ RespRow.status = COMPLETED /\ RespRow.progress = 100
    /\ RespRow.completed_at # NULL

\* C15: the score, passed and finished_at of a finished attempt are the same
\* after every later step.  The code breaks it: the admin re-grade runs
\* grade_attempt again, which stamps finished_at anew and derives score and
\* passed from the questions as they are then.
C15_FinishedAttemptFrozen ==
    [][\A a \in DOMAIN attempts :
           attempts[a].finished_at # NULL =>
               /\ attempts'[a].score = attempts[a].score
               /\ attempts'[a].passed = attempts[a].passed
               /\ attempts'[a].finished_at = attempts[a].finished_at]_vars

\* C16: no user has more QuizAttempt rows of a quiz than the quiz allows.  The
\* code breaks it: quiz_take tests the limit on GET only, every POST creates
\* an attempt.
C16_AttemptsWithinAllowed ==
    \A qz \in DOMAIN quizzes, u \in UserIds :
        Used(attempts, qz, u) <= quizzes[qz].attempts_allowed

\* a superuser, or a user whose profile has the role ADMIN
ResolvesToAdmin(u) ==
    u \in superusers \/ (profile[u].has /\ profile[u].role = ROLE_ADMIN)

\* C17: an impersonation start requested by a user who does not resolve to
\* ADMIN leaves the session, its active user and its impersonation keys, as
\* it was.
C17_NonAdminStartRefused ==
    [][(resp'.op = "impersonate_start" /\ session.user # NULL
          /\ resp'.user = session.user /\ ~ResolvesToAdmin(session.user)) =>
         (session' = session /\ resp'.refused)]_vars

\* C17 witness: a logged-in user who is no administrator asked to impersonate
\* another existing user and is still the active user
C17_Witness ==
    /\ resp.op = "impersonate_start" /\ resp.refused
    /\ ~ResolvesToAdmin(resp.user)
    /\ resp.target \in users /\ resp.target # resp.user
    /\ session.user = resp.user /\ session.impersonator_id = NULL

\* C18: a start requested while the session is impersonating, that is right
\* after a start that was accepted, is refused and changes neither the active
\* user nor the recorded impersonator.  The routed impersonate_start breaks
\* it: it has no test for a running impersonation.
C18_NestedStartRefused ==
    [][(((resp.op = "impersonate_start" /\ ~resp.refused)
           \/ session.impersonator_id # NULL)
          /\ resp'.op = "impersonate_start") =>
         session' = session]_vars

\* C19: a start whose target is a superuser, requested by a user who is not
\* a superuser, leaves the session as it was.  The routed impersonate_start
\* breaks it: it never looks at the target's is_superuser.
C19_SuperuserTargetRefused ==
    [][(resp'.op = "impersonate_start" /\ session.user # NULL
          /\ resp'.user = session.user /\ resp'.target \in superusers
          /\ session.user \notin superusers) =>
         session' = session]_vars

\* C20: a start whose target is the requesting user is refused: the session
\* is as it was and records no impersonator.
C20_SelfStartRefused ==
    [][(resp'.op = "impersonate_start" /\ session.user # NULL
          /\ resp'.user = session.user /\ resp'.target = session.user) =>
         /\ session' = session /\ resp'.refused
         /\ session'.impersonator_id = NULL /\ ~session'.is_impersonating]_vars

\* C20 witness: an administrator asked to impersonate themselves
C20_Witness ==
    /\ resp.op = "impersonate_start" /\ resp.refused
    /\ ResolvesToAdmin(resp.user) /\ resp.target = resp.user
    /\ session.user = resp.user /\ session.impersonator_id = NULL

\* C21: after an accepted impersonation start the active user is the target
\* and the session records the requester as impersonator, for the next request
\* to find.  The code breaks it: login() flushes the session the keys were
\* written to, because that session belongs to another user.
C21_StartRecordsOriginal ==
    (resp.op = "impersonate_start" /\ ~resp.refused) =>
        (session.user = resp.target /\ session.impersonator_id = resp.user)

InDepartment(dep) == {u \in users : profile[u].has /\ profile[u].department = dep}

\* C23: an accepted course_bulk_enroll over a department of n users, k of them
\* enrolled in the course already, adds n - k rows, one for each user not yet
\* enrolled, reports created = n - k and skipped = k and leaves every
\* existing row as it was.
C23_BulkCreatesMissingOnly ==
    [][(resp'.op = "course_bulk_enroll" /\ (enrollments' # enrollments \/ resp' # resp)) =>
         LET c == resp'.course
             n == Cardinality(InDepartment(resp'.target))
             k == Cardinality({u \in InDepartment(resp'.target) :
                                  EnrollmentPks(enrollments, u, c) # {}})
         IN  /\ Len(enrollments') = Len(enrollments) + (n - k)
             /\ resp'.created = n - k /\ resp'.skipped = k
             /\ \A i \in DOMAIN enrollments : enrollments'[i] = enrollments[i]
             /\ \A u \in InDepartment(resp'.target) :
                  Cardinality(EnrollmentPks(enrollments', u, c)) = 1
             /\ \A u \in users :
                  Cardinality(EnrollmentPks(enrollments', u, c)) <= 1]_vars

\* C23 witness: a department of two users, one of them enrolled before
C23_Witness ==
    /\ resp.op = "course_bulk_enroll"
    /\ Cardinality(InDepartment(resp.target)) = 2
    /\ resp.created = 1 /\ resp.skipped = 1
    /\ Len(enrollments) = 2

\* C24: a course_bulk_enroll POST of a user who is no administrator for a
\* department other than the user's own is refused and leaves the Enrollment
\* table as it was.  The code breaks it: only a manager is held to the own
\* department, a learner is not.
C24_CrossDepartmentRefused ==
    [][(resp'.op \in {"course_bulk_enroll", "bulk_refused"}
          /\ (enrollments' # enrollments \/ resp' # resp)
          /\ ~ResolvesToAdmin(resp'.user)
          /\ resp'.target # NULL /\ resp'.target # DeptOf(resp'.user)) =>
         (resp'.op = "bulk_refused" /\ enrollments' = enrollments)]_vars

\* the Choice rows of a question
ChoicesOf(q) == {i \in DOMAIN choices : choices[i].question = q}

\* C25: the quiz builder rejects input for a MULTIPLE question with fewer
\* than two filled choices or without a selected correct choice, on adding
\* and on editing, and writes no Question or Choice row for it; every stored
\* MULTIPLE question so keeps at least two choices of which exactly one is
\* correct.  question_edit breaks it: it validates nothing.
C25_MultipleInputValidated ==
    [][(resp'.op \in {"quiz_add_question", "question_edit"}
          /\ (resp' # resp \/ questions' # questions \/ choices' # choices)) =>
         /\ (resp'.kind = MULTIPLE
               /\ (Cardinality(resp'.touched) < 2 \/ resp'.target = NULL)) =>
              (questions' = questions /\ choices' = choices)
         /\ \A q \in DOMAIN questions' :
              questions'[q].question_type = MULTIPLE =>
                /\ Cardinality(ChoicesOf(q)') >= 2
                /\ Cardinality({i \in ChoicesOf(q)' : choices'[i].is_correct}) = 1]_vars

\* C26: whatever the interleaving of the receivers, the save of a writer that
\* loaded the Enrollment row while its completed_at was null does not put
\* null over a completed_at stored in the meantime.  The code breaks it:
\* save(update_fields) writes the completed_at of the copy held.
C26_CompletedAtNotLost ==
    [][\A p \in Procs :
         (/\ pc[p] = "save" /\ pc'[p] = "finished"
          /\ loc[p].enr.completed_at = NULL
          /\ enrollments[loc[p].pk].completed_at # NULL) =>
             enrollments'[loc[p].pk].completed_at # NULL]_vars

\* the courses of the rules a brand-new default profile matches: active, no
\* department, role null or LEARNER
DefaultCourses ==
    {rules[r].course : r \in {x \in DOMAIN rules :
        /\ rules[x].active /\ rules[x].department = NULL
        /\ rules[x].role \in {NoRef, ROLE_LEARNER}}}

\* C27: the enrollments made when a user is created are exactly those of the
\* active rules with no department and with role null or LEARNER, one
\* auto-enrolled row per course, whatever department and role were posted
\* to user_create; rules with a department or a MANAGER/ADMIN role add
\* nothing.
C27_HookAssignsDefaultProfile ==
    [][(resp'.op = "user_create" /\ users' # users) =>
         LET new == (DOMAIN enrollments') \ (DOMAIN enrollments)
         IN  /\ \A i \in DOMAIN enrollments : enrollments'[i] = enrollments[i]
             /\ \A i \in new : /\ enrollments'[i].user = resp'.user
                               /\ enrollments'[i].auto_enrolled
             /\ {enrollments'[i].course : i \in new} = DefaultCourses
             /\ Cardinality(new) = Cardinality(DefaultCourses)]_vars

\* C27 witness: a user posted as MANAGER of a department for which an active
\* rule exists got the course of the unfiltered rule only
C27_Witness ==
    /\ resp.op = "user_create" /\ resp.kind = ROLE_MANAGER /\ resp.target = 1
    /\ rules[1].active /\ rules[1].department = 1 /\ rules[1].role = ROLE_MANAGER
    /\ rules[2].active /\ rules[2].department = NULL /\ rules[2].course = 2
    /\ {e.course : e \in {enrollments[i] : i \in EnrollmentPks(enrollments, resp.user, 1)
                                              \cup EnrollmentPks(enrollments, resp.user, 2)}}
         = {2}

\* C28: a step of grade_attempt on an attempt that does not pass leaves the
\* Enrollment table as it was, also when an earlier attempt had completed
\* the enrollment of that user and course.
C28_FailedAttemptKeepsEnrollment ==
    [][(resp'.op \in {"quiz_take", "admin_grade"} /\ now' = now
          /\ ~attempts'[resp'.created].passed) =>
         enrollments' = enrollments]_vars

\* C28 witness: an attempt failed after another attempt of the same user had
\* passed and completed the enrollment, which is still completed
C28_Witness ==
    /\ resp.op \in {"quiz_take", "admin_grade"}
    /\ resp.created \in DOMAIN attempts /\ ~attempts[resp.created].passed
    /\ \E a \in DOMAIN attempts :
         a # resp.created /\ attempts[a].passed /\ attempts[a].user = resp.user
    /\ EnrollmentPks(enrollments, resp.user, resp.course) # {}
    /\ RespRow.status = COMPLETED /\ RespRow.progress = 100
    /\ RespRow.completed_at # NULL

\* C29: adding a material to a course and deleting one leave every Enrollment
\* row as it was, although the completion percent derived from the materials
\* has changed; the stored progress, status and completed_at wait for the
\* next MaterialProgress write.
C29_MaterialChangeKeepsEnrollments ==
    [][(resp'.op \in {"course_materials", "material_delete"}
          /\ materials' # materials) =>
         enrollments' = enrollments]_vars

\* C29 witness: a material was added to a course whose enrollment stays
\* COMPLETED at 100 while the share of completed materials is lower now
C29_Witness ==
    /\ resp.op = "course_materials"
    /\ \E i \in DOMAIN enrollments :
         /\ enrollments[i].course = resp.course
         /\ enrollments[i].progress = 100 /\ enrollments[i].status = COMPLETED
         /\ Percent(mprogress, materials, enrollments[i].user, resp.course) < 100

\* C30: the rows assign_by_rules leaves are the same for every order in which
\* the database hands it the matching rules.  The code breaks it: the queryset
\* has no order_by, the first rule of a course creates the row with its
\* required flag and due date, and a later rule at most fills in a missing
\* due date.
C30_RuleOrderIrrelevant ==
    [][(resp'.op = "assign_by_rules" /\ now' = now
          /\ (resp' # resp \/ enrollments' # enrollments)) =>
         \A order \in Orders(SelectedRules(resp'.user)) :
             Len(AssignLoop(enrollments, resp'.user, order, Date(now))) <= MaxEnrollments
               => enrollments' = AssignLoop(enrollments, resp'.user, order, Date(now))]_vars
====
